---- MODULE Spec2Model ----
(***************************************************************************)
(* Download lifecycle of the YouTube-Downloader front end: the App         *)
(* controller (main application file), the API gateway and the             *)
(* ProgressTracker (frontend2/js/api.js), and the parts of the UI module   *)
(* (frontend2/js/ui.js) that the controller projects its state onto.       *)
(*                                                                         *)
(* JavaScript runs handlers to completion; a handler suspends only at an   *)
(* await.  Every action below is one such run: a DOM event handler up to   *)
(* its first await, a timer callback, or the continuation of an await once *)
(* the network call it waits for has settled.                              *)
(*                                                                         *)
(* Left out: toast notifications, the history and statistics tabs          *)
(* (loadHistory, loadStats), and the text formatting of the UI module.     *)
(***************************************************************************)
EXTENDS Integers, Sequences, FiniteSets, TLC

\* ------------------------------------------------------------------ bounds
MaxInfo == 2        \* metadata fetches issued in one run
MaxDispatch == 2    \* start-download requests issued in one run
MaxPolls == 3       \* status queries issued in one run before the timers stop firing
MaxCleanup == 1     \* cleanup requests issued in one run
MaxFormDispatch == 2   \* start-download requests issued in one run of SpecForm
MaxTrackDispatch == 2  \* start-download requests issued in one run of SpecTrack
MaxTrackPolls == 2     \* as MaxPolls, in one run of SpecTrack
MaxGatewayDispatch == 1  \* start-download requests issued in one run of SpecGateway
MaxGatewayPolls == 2     \* as MaxPolls, in one run of SpecGateway
MaxTrackerPolls == 3     \* as MaxPolls, in one run of SpecTracker
MaxSourceDispatch == 1   \* start-download requests issued in one run of SpecSource
MaxLivePolls == 4        \* status queries a tracker issues in one run of SpecLive
LiveReportsAt == 3       \* in SpecLive, the first status query the backend answers
                         \* with a terminal status

\* ------------------------------------------------------- config.js values
PROGRESS_POLL_INTERVAL == 1000
MAX_URL_LENGTH == 2048
VIDEO == "video"
AUDIO == "audio"
DOWNLOAD_TYPES == {VIDEO, AUDIO}
DEFAULT_VIDEO_QUALITY == "best"
DEFAULT_AUDIO_FORMAT == "mp3"
VIDEO_QUALITIES == {"best", "1080", "720", "480", "360"}

\* ------------------------------------------------------- JavaScript values
\* The value of a property that an object does not have.
Undefined == "undefined"
\* null, for the download id and the tracker reference.
NoId == 0
NoTracker == 0
\* JavaScript truthiness of a string-or-undefined value.
Truthy(v) == v # Undefined /\ v # ""
\* obj.f : the property, or undefined when the object has none.
Get(obj, f) == IF f \in DOMAIN obj THEN obj[f] ELSE Undefined
\* The object with no properties.
EmptyObj == [f \in {} |-> Undefined]

\* JSON.stringify(data): properties whose value is undefined are left out of
\* the serialised object; all others are kept with their value.
JSONStringifyNull(data) == [f \in DOMAIN data |-> IF data[f] = Undefined THEN "null" ELSE data[f]]
JSONStringify(data) == [f \in {g \in DOMAIN data : data[g] # Undefined} |-> data[f]]

\* ------------------------------------------------------------ URL strings
\* A text typed in the URL input: `lead`/`trail` blanks around a core of
\* `len` characters that either parses as a URL or does not.
Text(lead, core, len, ok, trail) ==
    [lead |-> lead, core |-> core, len |-> len, parses |-> ok, trail |-> trail]
EmptyText == Text(0, "", 0, FALSE, 0)
UrlInputs ==
    { EmptyText,
      Text(2, "", 0, FALSE, 0),
      Text(0, "not a url", 9, FALSE, 0),
      Text(1, "https://a", 9, TRUE, 1),
      Text(0, "https://b", 9, TRUE, 0),
      Text(0, "https://long", MAX_URL_LENGTH + 1, TRUE, 0) }
\* String.prototype.trim
Trim(s) == [s EXCEPT !.lead = 0, !.trail = 0]
Length(s) == s.lead + s.len + s.trail
\* new URL(url) throws on a string with surrounding text that is no URL;
\* the URL parser itself strips leading and trailing blanks.
UrlParses(s) == s.parses

\* UI.isValidUrl
isValidUrlNoLimit(url) == UrlParses(url)
isValidUrl(url) == IF UrlParses(url) THEN Length(url) <= MAX_URL_LENGTH ELSE FALSE

\* ---------------------------------------------------------- network layer
\* What fetch() gives back: the promise rejects (net = FALSE, with the
\* TypeError's message) or resolves to a response with an ok flag and a
\* body that parses as JSON or does not.
NetFail == [net |-> FALSE, ok |-> FALSE, json |-> FALSE, body |-> EmptyObj, message |-> "Failed to fetch"]
HttpResponse(ok, body) == [net |-> TRUE, ok |-> ok, json |-> TRUE, body |-> body, message |-> ""]
HttpGarbage(ok) == [net |-> TRUE, ok |-> ok, json |-> FALSE, body |-> EmptyObj, message |-> ""]
JsonSyntaxMessage == "Unexpected token < in JSON"
REQUEST_FAILED == "Request failed"

\* The outcome of an async call: a value, or a thrown Error with a message.
Return(v) == [threw |-> FALSE, message |-> "", value |-> v]
Throw(m) == [threw |-> TRUE, message |-> m, value |-> EmptyObj]

\* API.get, from the settled fetch to its result
ApiGet(r) ==
    IF ~r.net THEN Throw(r.message)
    ELSE IF ~r.ok
         THEN IF ~r.json THEN Throw(JsonSyntaxMessage)
              ELSE Throw(IF Truthy(Get(r.body, "error")) THEN r.body.error ELSE REQUEST_FAILED)
         ELSE IF ~r.json THEN Throw(JsonSyntaxMessage) ELSE Return(r.body)

\* API.post, from the settled fetch to its result
ApiPost(r) ==
    IF ~r.net THEN Throw(r.message)
    ELSE IF ~r.ok
         THEN IF ~r.json THEN Throw(JsonSyntaxMessage)
              ELSE Throw(IF Truthy(Get(r.body, "error")) THEN r.body.error ELSE REQUEST_FAILED)
         ELSE IF ~r.json THEN Throw(JsonSyntaxMessage) ELSE Return(r.body)

\* API.startDownload: the object handed to API.post, and the body sent.
StartDownloadDataBoth(url, type, quality) ==
    [url |-> url.core, type |-> type, quality |-> quality,
     audio_format |-> IF type = AUDIO THEN DEFAULT_AUDIO_FORMAT ELSE Undefined]
StartDownloadData(url, type, quality) ==
    [url |-> url.core, type |-> type,
     quality |-> IF type = VIDEO THEN quality ELSE Undefined,
     audio_format |-> IF type = AUDIO THEN DEFAULT_AUDIO_FORMAT ELSE Undefined]
StartDownloadBody(url, type, quality) == JSONStringify(StartDownloadData(url, type, quality))

\* Replies of the backend, per endpoint.
ServerError == "Video unavailable"
InfoResponses(url) ==
    { HttpResponse(TRUE, [title |-> url.core]),
      HttpResponse(FALSE, [error |-> ServerError]),
      NetFail }
DownloadResponses(n) ==
    { HttpResponse(TRUE, [download_id |-> n]),
      HttpResponse(FALSE, [error |-> ServerError]),
      NetFail }
ProgressResponses ==
    { HttpResponse(TRUE, [status |-> "starting"]),
      HttpResponse(TRUE, [status |-> "downloading"]),
      HttpResponse(TRUE, [status |-> "processing"]),
      HttpResponse(TRUE, [status |-> "completed", filename |-> "x.mp4"]),
      HttpResponse(TRUE, [status |-> "error", error |-> ServerError]),
      NetFail }
CleanupResponses ==
    { HttpResponse(TRUE, [deleted |-> "3"]), NetFail }

\* ------------------------------------------------------------------ state
VARIABLES
    state,        \* App.state
    ui,           \* the DOM elements UI writes (UI.elements)
    trackers,     \* every ProgressTracker constructed so far, by creation order
    timers,       \* per tracker, the interval handles the browser still fires
    infoReqs,     \* POST /api/info calls awaiting their reply
    dlReqs,       \* POST /api/download calls awaiting their reply, each with the
                  \* arguments API.startDownload was called with and the body sent
    pollReqs,     \* GET /api/progress/<id> calls awaiting their reply
    cleanupReqs,  \* POST /api/cleanup calls awaiting their reply
    nInfo, nDl, nCleanup,   \* calls issued so far, per endpoint
    polls,        \* per tracker, status queries issued so far
    cbLog,        \* per tracker, the callbacks it has invoked, in order
    stopCalled,   \* per tracker, whether stop() has run on it
    overlapped    \* pairs <<a, b>>: dispatch b was issued while a was in flight

vars == <<state, ui, trackers, timers, infoReqs, dlReqs, pollReqs, cleanupReqs,
          nInfo, nDl, nCleanup, polls, cbLog, stopCalled, overlapped>>

netVars == <<infoReqs, dlReqs, pollReqs, cleanupReqs, nInfo, nDl, nCleanup>>
trackerVars == <<trackers, timers, polls, cbLog, stopCalled>>

\* ------------------------------------------------------------- UI module
\* UI.setLoading
setLoading(u, isLoading) == [u EXCEPT !.loadingHidden = ~isLoading]
\* UI.showVideoInfo
showVideoInfo(u, info) ==
    [u EXCEPT !.videoTitle = Get(info, "title"), !.videoInfoHidden = FALSE]
\* UI.hideVideoInfo
hideVideoInfo(u) == [u EXCEPT !.videoInfoHidden = TRUE]
\* UI.hideAllSections
hideAllSections(u) ==
    [u EXCEPT !.progressHidden = TRUE, !.successHidden = TRUE, !.errorHidden = TRUE]
\* UI.showProgress
showProgress(u) == [hideAllSections(u) EXCEPT !.progressHidden = FALSE]
\* UI.updateProgress
updateProgress(u, progress) ==
    LET status == Get(progress, "status") IN
    IF status = "downloading" THEN [u EXCEPT !.progressStatus = "Downloading..."]
    ELSE IF status = "processing" THEN [u EXCEPT !.progressStatus = "Processing file..."]
    ELSE IF status = "starting" THEN [u EXCEPT !.progressStatus = "Starting download..."]
    ELSE u
\* UI.showSuccess; API.getFileUrl(downloadId) is the link's href
showSuccess(u, downloadId, filename) ==
    [hideAllSections(u) EXCEPT !.fileHref = downloadId, !.fileName = filename,
                               !.successHidden = FALSE]
\* UI.showError
showError(u, errorMsg) ==
    [hideAllSections(u) EXCEPT !.errorMessage = errorMsg, !.errorHidden = FALSE]
\* UI.resetDownloadUI
resetDownloadUI(u) ==
    [hideVideoInfo(hideAllSections(u)) EXCEPT !.urlInput = EmptyText]

\* -------------------------------------------------------- ProgressTracker
\* new ProgressTracker(downloadId, ...)
NewTracker(downloadId) == [downloadId |-> downloadId, interval |-> 0, isTracking |-> FALSE]
\* A handle setInterval has not handed out among `live`.
NewHandle(live) == CHOOSE h \in 1..(Cardinality(live) + 1) : h \notin live

\* ProgressTracker.stop: the tracker after it, and its live timers after it
TrackerStopKeepTimer(tr) == [tr EXCEPT !.isTracking = FALSE]
TrackerStop(tr) == [tr EXCEPT !.interval = 0, !.isTracking = FALSE]
TimersAfterStopKeep(tr, live) == live
TimersAfterStop(tr, live) == IF tr.interval # 0 THEN live \ {tr.interval} ELSE live

\* ProgressTracker.checkProgress after the await: what it does with the
\* result of API.getProgress.
Outcome(stop, cb, arg) == [stop |-> stop, cb |-> cb, arg |-> arg]
CheckProgressOutcomeNoStop(res) ==
    IF res.threw THEN Outcome(FALSE, "onError", res.message)
    ELSE LET progress == res.value IN
         IF Get(progress, "status") = "completed"
         THEN Outcome(FALSE, "onComplete", Get(progress, "filename"))
         ELSE IF Get(progress, "status") = "error"
         THEN Outcome(FALSE, "onError",
                      IF Truthy(Get(progress, "error")) THEN progress.error ELSE "Download failed")
         ELSE Outcome(FALSE, "onUpdate", Get(progress, "status"))
CheckProgressOutcome(res) ==
    IF res.threw THEN Outcome(TRUE, "onError", res.message)
    ELSE LET progress == res.value IN
         IF Get(progress, "status") = "completed"
         THEN Outcome(TRUE, "onComplete", Get(progress, "filename"))
         ELSE IF Get(progress, "status") = "error"
         THEN Outcome(TRUE, "onError",
                      IF Truthy(Get(progress, "error")) THEN progress.error ELSE "Download failed")
         ELSE Outcome(FALSE, "onUpdate", Get(progress, "status"))

\* The callbacks App.trackProgress hands to the tracker, as changes of the UI.
onUpdate(u, progress) == updateProgress(u, progress)
onComplete(u, st, progress) == showSuccess(u, st.currentDownloadId, Get(progress, "filename"))
onError(u, error) == showError(u, error)
\* The callbacks as changes of App.state: none of the three assigns to it.
CallbackStateClears(cb, st) ==
    IF cb \in {"onComplete", "onError"} THEN [st EXCEPT !.progressTracker = NoTracker] ELSE st
CallbackState(cb, st) == st

\* ------------------------------------------------------------------- Init
Init ==
    /\ state = [currentUrl |-> EmptyText,
                currentDownloadType |-> VIDEO,
                currentQuality |-> DEFAULT_VIDEO_QUALITY,
                currentDownloadId |-> NoId,
                progressTracker |-> NoTracker,
                videoInfo |-> EmptyObj]
    /\ ui = [urlInput |-> EmptyText,
             videoInfoHidden |-> TRUE, videoTitle |-> "",
             progressHidden |-> TRUE, progressStatus |-> "",
             successHidden |-> TRUE, fileHref |-> NoId, fileName |-> "",
             errorHidden |-> TRUE, errorMessage |-> "",
             loadingHidden |-> TRUE]
    /\ trackers = <<>>
    /\ timers = <<>>
    /\ infoReqs = {} /\ dlReqs = {} /\ pollReqs = {} /\ cleanupReqs = {}
    /\ nInfo = 0 /\ nDl = 0 /\ nCleanup = 0
    /\ polls = <<>>
    /\ cbLog = <<>>
    /\ stopCalled = <<>>
    /\ overlapped = {}

\* ------------------------------------------------------ user input events
\* The user edits the URL input (UI.elements.urlInput.value).
TypeUrl(v) ==
    /\ ui.urlInput # v
    /\ ui' = [ui EXCEPT !.urlInput = v]
    /\ UNCHANGED <<state, netVars, trackerVars, overlapped>>

\* Click on a download-type button.
SetDownloadType(type) ==
    /\ state.currentDownloadType # type
    /\ state' = [state EXCEPT !.currentDownloadType = type]
    /\ UNCHANGED <<ui, netVars, trackerVars, overlapped>>

\* Change of the quality select.
SetQuality(q) ==
    /\ state.currentQuality # q
    /\ state' = [state EXCEPT !.currentQuality = q]
    /\ UNCHANGED <<ui, netVars, trackerVars, overlapped>>

\* ----------------------------------------------------- App.fetchVideoInfo
\* Click on "Get Info" or Enter in the URL input: the handler up to its await.
FetchVideoInfo ==
    LET url == Trim(ui.urlInput) IN
    IF Length(url) = 0
    THEN UNCHANGED vars
    ELSE IF ~isValidUrl(url)
    THEN UNCHANGED vars
    ELSE /\ nInfo < MaxInfo
         /\ state' = [state EXCEPT !.currentUrl = url]
         /\ ui' = setLoading(ui, TRUE)
         /\ nInfo' = nInfo + 1
         /\ infoReqs' = infoReqs \cup {[n |-> nInfo + 1, url |-> url]}
         /\ UNCHANGED <<dlReqs, pollReqs, cleanupReqs, nDl, nCleanup, trackerVars, overlapped>>

\* The rest of fetchVideoInfo, once API.getVideoInfo has settled.
InfoReply(req, r) ==
    LET res == ApiPost(r) IN
    /\ req \in infoReqs
    /\ infoReqs' = infoReqs \ {req}
    /\ IF ~res.threw
       THEN /\ state' = [state EXCEPT !.videoInfo = res.value]
            /\ ui' = setLoading(showVideoInfo(ui, res.value), FALSE)
       ELSE /\ state' = state
            /\ ui' = setLoading(showError(ui, res.message), FALSE)
    /\ UNCHANGED <<dlReqs, pollReqs, cleanupReqs, nInfo, nDl, nCleanup, trackerVars, overlapped>>

\* ------------------------------------------------------ App.startDownload
\* Click on the download button: the handler up to its await.  `cap` bounds
\* the run.
StartDownloadUpTo(cap) ==
    IF Length(state.currentUrl) = 0
    THEN UNCHANGED vars
    ELSE /\ nDl < cap
         /\ ui' = setLoading(ui, TRUE)
         /\ nDl' = nDl + 1
         /\ dlReqs' = dlReqs \cup
                {[n |-> nDl + 1,
                  args |-> <<state.currentUrl, state.currentDownloadType, state.currentQuality>>,
                  body |-> StartDownloadBody(state.currentUrl, state.currentDownloadType,
                                             state.currentQuality)]}
         /\ overlapped' = overlapped \cup {<<d.n, nDl + 1>> : d \in dlReqs}
         /\ UNCHANGED <<state, infoReqs, pollReqs, cleanupReqs, nInfo, nCleanup, trackerVars>>
StartDownload == StartDownloadUpTo(MaxDispatch)

\* App.trackProgress: which of the existing trackers it stops.
TrackProgressStopsNone(st) == {}
TrackProgressStops(st) ==
    IF st.progressTracker # NoTracker THEN {st.progressTracker} ELSE {}

\* The rest of startDownload, once API.startDownload has settled; on success
\* it runs trackProgress, which runs ProgressTracker.start, which runs
\* checkProgress up to its await and then sets the interval.
DownloadReply(req, r) ==
    LET res == ApiPost(r)
        id == Get(res.value, "download_id")
        old == TrackProgressStops(state)
        new == Len(trackers) + 1
        handle == NewHandle({})
    IN
    /\ req \in dlReqs
    /\ dlReqs' = dlReqs \ {req}
    /\ IF ~res.threw
       THEN /\ state' = [state EXCEPT !.currentDownloadId = id, !.progressTracker = new]
            /\ ui' = setLoading(showProgress(ui), FALSE)
            /\ trackers' = Append([t \in DOMAIN trackers |->
                                      IF t \in old THEN TrackerStop(trackers[t]) ELSE trackers[t]],
                                  [NewTracker(id) EXCEPT !.isTracking = TRUE, !.interval = handle])
            /\ timers' = Append([t \in DOMAIN timers |->
                                    IF t \in old THEN TimersAfterStop(trackers[t], timers[t])
                                    ELSE timers[t]],
                                {handle})
            /\ stopCalled' = Append([t \in DOMAIN stopCalled |-> stopCalled[t] \/ t \in old], FALSE)
            /\ polls' = Append(polls, 1)
            /\ cbLog' = Append(cbLog, <<>>)
            /\ pollReqs' = pollReqs \cup {[tracker |-> new, seq |-> 1]}
       ELSE /\ state' = state
            /\ ui' = setLoading(showError(ui, res.message), FALSE)
            /\ UNCHANGED <<trackerVars, pollReqs>>
    /\ UNCHANGED <<infoReqs, cleanupReqs, nInfo, nDl, nCleanup, overlapped>>

\* ----------------------------------------------------- buttons of the page
\* Click on "New download", a button of the success section.
NewDownloadClick ==
    /\ ~ui.successHidden
    /\ ui' = resetDownloadUI(ui)
    /\ UNCHANGED <<state, netVars, trackerVars, overlapped>>

\* Click on "Retry", a button of the error section.
RetryClickResets ==
    /\ ~ui.errorHidden
    /\ ui' = resetDownloadUI(hideAllSections(ui))
    /\ UNCHANGED <<state, netVars, trackerVars, overlapped>>
RetryClick ==
    /\ ~ui.errorHidden
    /\ ui' = IF state.videoInfo # EmptyObj
             THEN showVideoInfo(hideAllSections(ui), state.videoInfo)
             ELSE resetDownloadUI(hideAllSections(ui))
    /\ UNCHANGED <<state, netVars, trackerVars, overlapped>>

\* ------------------------------------------------------- ProgressTracker
\* Status queries issued so far, by all trackers together.
RECURSIVE SumSeq(_)
SumSeq(q) == IF q = <<>> THEN 0 ELSE Head(q) + SumSeq(Tail(q))
TotalPolls == SumSeq(polls)

\* The interval fires: checkProgress up to its await.  `cap` bounds the run.
TickUpTo(t, cap) ==
    /\ t \in DOMAIN trackers
    /\ timers[t] # {}
    /\ TotalPolls < cap
    /\ polls' = [polls EXCEPT ![t] = @ + 1]
    /\ pollReqs' = pollReqs \cup {[tracker |-> t, seq |-> polls[t] + 1]}
    /\ UNCHANGED <<state, ui, trackers, timers, cbLog, stopCalled, infoReqs, dlReqs,
                   cleanupReqs, nInfo, nDl, nCleanup, overlapped>>
Tick(t) == TickUpTo(t, MaxPolls)

\* The rest of checkProgress, once API.getProgress has settled.
ProgressReply(q, r) ==
    LET t == q.tracker
        res == ApiGet(r)
        out == CheckProgressOutcome(res)
    IN
    /\ q \in pollReqs
    /\ pollReqs' = pollReqs \ {q}
    /\ IF out.stop
       THEN /\ trackers' = [trackers EXCEPT ![t] = TrackerStop(@)]
            /\ timers' = [timers EXCEPT ![t] = TimersAfterStop(trackers[t], @)]
            /\ stopCalled' = [stopCalled EXCEPT ![t] = TRUE]
       ELSE UNCHANGED <<trackers, timers, stopCalled>>
    /\ ui' = CASE out.cb = "onComplete" -> onComplete(ui, state, res.value)
               [] out.cb = "onError" -> onError(ui, out.arg)
               [] OTHER -> onUpdate(ui, res.value)
    /\ state' = CallbackState(out.cb, state)
    /\ cbLog' = [cbLog EXCEPT ![t] = Append(@, out.cb)]
    /\ UNCHANGED <<polls, infoReqs, dlReqs, cleanupReqs, nInfo, nDl, nCleanup, overlapped>>

\* ProgressTracker.start, called by whoever holds the tracker: whether it
\* returns at once, and otherwise checkProgress up to its await and the
\* interval it sets.  `cap` bounds the run.
StartReturnsNever(tr) == FALSE
StartReturns(tr) == tr.isTracking
startUpTo(t, cap) ==
    /\ t \in DOMAIN trackers
    /\ IF StartReturns(trackers[t])
       THEN UNCHANGED vars
       ELSE LET handle == NewHandle(timers[t]) IN
            /\ TotalPolls < cap
            /\ trackers' = [trackers EXCEPT ![t] = [@ EXCEPT !.isTracking = TRUE,
                                                            !.interval = handle]]
            /\ timers' = [timers EXCEPT ![t] = @ \cup {handle}]
            /\ polls' = [polls EXCEPT ![t] = @ + 1]
            /\ pollReqs' = pollReqs \cup {[tracker |-> t, seq |-> polls[t] + 1]}
            /\ UNCHANGED <<state, ui, cbLog, stopCalled, infoReqs, dlReqs, cleanupReqs,
                           nInfo, nDl, nCleanup, overlapped>>
start(t) == startUpTo(t, MaxTrackerPolls)

\* ProgressTracker.stop, called by whoever holds the tracker.
stop(t) ==
    /\ t \in DOMAIN trackers
    /\ trackers' = [trackers EXCEPT ![t] = TrackerStop(@)]
    /\ timers' = [timers EXCEPT ![t] = TimersAfterStop(trackers[t], @)]
    /\ stopCalled' = [stopCalled EXCEPT ![t] = TRUE]
    /\ UNCHANGED <<state, ui, polls, cbLog, pollReqs, infoReqs, dlReqs, cleanupReqs,
                   nInfo, nDl, nCleanup, overlapped>>

\* ------------------------------------------------------ App.manualCleanup
\* Click on the cleanup button, confirmed: the handler up to its await.
ManualCleanup ==
    /\ nCleanup < MaxCleanup
    /\ ui' = setLoading(ui, TRUE)
    /\ nCleanup' = nCleanup + 1
    /\ cleanupReqs' = cleanupReqs \cup {nCleanup + 1}
    /\ UNCHANGED <<state, infoReqs, dlReqs, pollReqs, nInfo, nDl, trackerVars, overlapped>>

\* The rest of manualCleanup, once API.cleanup has settled.
CleanupReply(c, r) ==
    LET res == ApiPost(r) IN
    /\ c \in cleanupReqs
    /\ cleanupReqs' = cleanupReqs \ {c}
    /\ ui' = setLoading(ui, FALSE)
    /\ UNCHANGED <<state, infoReqs, dlReqs, pollReqs, nInfo, nDl, nCleanup, trackerVars, overlapped>>

\* ------------------------------------------------------------------- Next
\* The URL the user works with in the lifecycle specifications.
LifecycleUrls == { Text(1, "https://a", 9, TRUE, 1) }

\* The handlers of the metadata fetch and of the dispatch, and the retry.
PageHandlers ==
    \/ FetchVideoInfo
    \/ \E req \in infoReqs : \E r \in InfoResponses(req.url) : InfoReply(req, r)
    \/ StartDownload
    \/ \E req \in dlReqs : \E r \in DownloadResponses(req.n) : DownloadReply(req, r)
    \/ RetryClick

\* The download lifecycle: one URL, the default type and quality, and a
\* backend that may answer every status query with any report.
Next ==
    \/ \E v \in LifecycleUrls : TypeUrl(v)
    \/ PageHandlers
    \/ NewDownloadClick
    \/ \E t \in DOMAIN trackers : Tick(t)
    \/ \E q \in pollReqs : \E r \in ProgressResponses : ProgressReply(q, r)

Spec == Init /\ [][Next]_vars

\* The page as a successful metadata fetch leaves it.
InitForm ==
    \E v \in LifecycleUrls :
        /\ state = [currentUrl |-> Trim(v),
                    currentDownloadType |-> VIDEO,
                    currentQuality |-> DEFAULT_VIDEO_QUALITY,
                    currentDownloadId |-> NoId,
                    progressTracker |-> NoTracker,
                    videoInfo |-> [title |-> v.core]]
        /\ ui = [urlInput |-> v,
                 videoInfoHidden |-> FALSE, videoTitle |-> v.core,
                 progressHidden |-> TRUE, progressStatus |-> "",
                 successHidden |-> TRUE, fileHref |-> NoId, fileName |-> "",
                 errorHidden |-> TRUE, errorMessage |-> "",
                 loadingHidden |-> TRUE]
        /\ trackers = <<>> /\ timers = <<>>
        /\ infoReqs = {} /\ dlReqs = {} /\ pollReqs = {} /\ cleanupReqs = {}
        /\ nInfo = 1 /\ nDl = 0 /\ nCleanup = 0
        /\ polls = <<>> /\ cbLog = <<>> /\ stopCalled = <<>>
        /\ overlapped = {}

\* The download form: every download type and quality and the dispatches
\* they lead to, with timers and poll replies left pending.
NextForm ==
    \/ \E type \in DOWNLOAD_TYPES : SetDownloadType(type)
    \/ \E q \in VIDEO_QUALITIES : SetQuality(q)
    \/ StartDownloadUpTo(MaxFormDispatch)
    \/ \E req \in dlReqs : \E r \in DownloadResponses(req.n) : DownloadReply(req, r)
    \/ RetryClick

SpecForm == InitForm /\ [][NextForm]_vars

\* The trackers: from the page as a successful metadata fetch leaves it,
\* the dispatches, the trackers they start, their timers and poll replies,
\* and the buttons of the success and error sections.
NextTrack ==
    \/ StartDownloadUpTo(MaxTrackDispatch)
    \/ \E req \in dlReqs : \E r \in DownloadResponses(req.n) : DownloadReply(req, r)
    \/ NewDownloadClick
    \/ RetryClick
    \/ \E t \in DOMAIN trackers : TickUpTo(t, MaxTrackPolls)
    \/ \E q \in pollReqs : \E r \in ProgressResponses : ProgressReply(q, r)

SpecTrack == InitForm /\ [][NextTrack]_vars

\* The lifecycle against a backend that follows a script: the k-th status
\* query of a tracker is answered by script(k).
ScenarioA(k) ==
    CASE k = 1 -> { HttpResponse(TRUE, [status |-> "starting"]) }
      [] k = 2 -> { HttpResponse(TRUE, [status |-> "downloading"]) }
      [] k = 3 -> { HttpResponse(TRUE, [status |-> "completed", filename |-> "x.mp4"]) }
      [] OTHER -> ProgressResponses
ScenarioB(k) ==
    CASE k = 1 -> { HttpResponse(TRUE, [status |-> "downloading"]) }
      [] k = 2 -> { NetFail }
      [] OTHER -> ProgressResponses

NextA ==
    \/ \E v \in LifecycleUrls : TypeUrl(v)
    \/ PageHandlers
    \/ NewDownloadClick
    \/ \E t \in DOMAIN trackers : TickUpTo(t, MaxPolls + 1)
    \/ \E q \in pollReqs : \E r \in ScenarioA(q.seq) : ProgressReply(q, r)

SpecA == Init /\ [][NextA]_vars

NextB ==
    \/ \E v \in LifecycleUrls : TypeUrl(v)
    \/ PageHandlers
    \/ NewDownloadClick
    \/ \E t \in DOMAIN trackers : TickUpTo(t, MaxPolls + 1)
    \/ \E q \in pollReqs : \E r \in ScenarioB(q.seq) : ProgressReply(q, r)

SpecB == Init /\ [][NextB]_vars

\* A tracker under fair scheduling: the page issues one dispatch, so that the
\* controller never stops the tracker it starts; the tracker's interval
\* keeps firing while it is set, every status query settles, and the backend
\* answers the status queries with a terminal status from the
\* LiveReportsAt-th on.
LiveBackend(k) ==
    IF k < LiveReportsAt
    THEN { HttpResponse(TRUE, [status |-> "starting"]),
           HttpResponse(TRUE, [status |-> "downloading"]),
           HttpResponse(TRUE, [status |-> "processing"]) }
    ELSE { HttpResponse(TRUE, [status |-> "completed", filename |-> "x.mp4"]),
           HttpResponse(TRUE, [status |-> "error", error |-> ServerError]) }

LiveTick(t) ==
    /\ t \in DOMAIN trackers
    /\ polls[t] < MaxLivePolls
    /\ TickUpTo(t, TotalPolls + 1)
LiveReply == \E q \in pollReqs : \E r \in LiveBackend(q.seq) : ProgressReply(q, r)

NextLive ==
    \/ StartDownloadUpTo(1)
    \/ \E req \in dlReqs : \E r \in DownloadResponses(req.n) : DownloadReply(req, r)
    \/ LiveTick(1)
    \/ LiveReply

SpecLive ==
    /\ InitForm /\ [][NextLive]_vars
    /\ WF_vars(LiveTick(1))
    /\ WF_vars(LiveReply)

\* The ProgressTracker class on its own: the page inside App.trackProgress,
\* with the tracker of download 1 constructed and not yet started, and an
\* owner that calls start() and stop() in any order while the interval
\* fires and the status queries settle.
InitTracker ==
    \E v \in LifecycleUrls :
        /\ state = [currentUrl |-> Trim(v),
                    currentDownloadType |-> VIDEO,
                    currentQuality |-> DEFAULT_VIDEO_QUALITY,
                    currentDownloadId |-> 1,
                    progressTracker |-> 1,
                    videoInfo |-> [title |-> v.core]]
        /\ ui = [urlInput |-> v,
                 videoInfoHidden |-> FALSE, videoTitle |-> v.core,
                 progressHidden |-> FALSE, progressStatus |-> "",
                 successHidden |-> TRUE, fileHref |-> NoId, fileName |-> "",
                 errorHidden |-> TRUE, errorMessage |-> "",
                 loadingHidden |-> FALSE]
        /\ trackers = <<NewTracker(1)>> /\ timers = <<{}>>
        /\ infoReqs = {} /\ dlReqs = {} /\ pollReqs = {} /\ cleanupReqs = {}
        /\ nInfo = 1 /\ nDl = 1 /\ nCleanup = 0
        /\ polls = <<0>> /\ cbLog = << <<>> >> /\ stopCalled = <<FALSE>>
        /\ overlapped = {}

NextTracker ==
    \/ \E t \in DOMAIN trackers : start(t)
    \/ \E t \in DOMAIN trackers : stop(t)
    \/ \E t \in DOMAIN trackers : TickUpTo(t, MaxTrackerPolls)
    \/ \E q \in pollReqs : \E r \in ProgressResponses : ProgressReply(q, r)

SpecTracker == InitTracker /\ [][NextTracker]_vars

\* The gateway: every endpoint the page calls, against a backend (or a proxy
\* in front of it) that may also answer with a non-success status and a JSON
\* body without an error text, or with a body that is no JSON at all.
OddResponses == { HttpResponse(FALSE, EmptyObj), HttpGarbage(FALSE), HttpGarbage(TRUE) }

NextGateway ==
    \/ \E v \in LifecycleUrls : TypeUrl(v)
    \/ FetchVideoInfo
    \/ \E req \in infoReqs : \E r \in InfoResponses(req.url) \cup OddResponses : InfoReply(req, r)
    \/ StartDownloadUpTo(MaxGatewayDispatch)
    \/ \E req \in dlReqs : \E r \in DownloadResponses(req.n) \cup OddResponses : DownloadReply(req, r)
    \/ \E t \in DOMAIN trackers : TickUpTo(t, MaxGatewayPolls)
    \/ \E q \in pollReqs : \E r \in ProgressResponses \cup OddResponses : ProgressReply(q, r)
    \/ ManualCleanup
    \/ \E c \in cleanupReqs : \E r \in CleanupResponses \cup OddResponses : CleanupReply(c, r)

SpecGateway == Init /\ [][NextGateway]_vars

\* The URL input: every text the user may type, the metadata fetches it
\* leads to and their replies.
NextValidate ==
    \/ \E v \in UrlInputs : TypeUrl(v)
    \/ FetchVideoInfo
    \/ \E req \in infoReqs : \E r \in InfoResponses(req.url) : InfoReply(req, r)

SpecValidate == Init /\ [][NextValidate]_vars

\* The source URL: two URLs the user may type, the metadata fetches and the
\* dispatches they lead to, with timers left pending.
SourceUrls == { Text(0, "https://a", 9, TRUE, 0), Text(0, "https://b", 9, TRUE, 0) }

NextSource ==
    \/ \E v \in SourceUrls : TypeUrl(v)
    \/ FetchVideoInfo
    \/ \E req \in infoReqs : \E r \in InfoResponses(req.url) : InfoReply(req, r)
    \/ StartDownloadUpTo(MaxSourceDispatch)
    \/ \E req \in dlReqs : \E r \in DownloadResponses(req.n) : DownloadReply(req, r)
    \/ RetryClick

SpecSource == Init /\ [][NextSource]_vars

\* ------------------------------------------------------- lifecycle state
\* The lifecycle state the page shows.  A call in flight decides first (a
\* dispatch before a metadata fetch), then the section that is visible.
LifecycleState ==
    IF dlReqs # {} THEN "STARTING"
    ELSE IF infoReqs # {} THEN "FETCHING_INFO"
    ELSE IF ~ui.errorHidden THEN "FAILED"
    ELSE IF ~ui.successHidden THEN "SUCCEEDED"
    ELSE IF ~ui.progressHidden
         THEN IF ui.progressStatus = "Processing file..." THEN "PROCESSING" ELSE "IN_PROGRESS"
    ELSE IF ~ui.videoInfoHidden THEN "INFO_READY"
    ELSE "IDLE"

\* An event of the user, as opposed to a timer tick or a reply of the backend.
UserEvent ==
    \/ \E v \in UrlInputs : TypeUrl(v)
    \/ \E type \in DOWNLOAD_TYPES : SetDownloadType(type)
    \/ \E q \in VIDEO_QUALITIES : SetQuality(q)
    \/ FetchVideoInfo
    \/ StartDownload
    \/ NewDownloadClick
    \/ RetryClick
    \/ ManualCleanup

IsTerminalCb(cb) == cb \in {"onComplete", "onError"}
TerminalCount(l) == Cardinality({i \in DOMAIN l : IsTerminalCb(l[i])})
Outstanding(t) == {q \in pollReqs : q.tracker = t}
IsPrefix(a, b) == Len(a) <= Len(b) /\ a = SubSeq(b, 1, Len(a))

\* ----------------------------------------------------------------- claims
ActiveStates == {"FETCHING_INFO", "STARTING", "IN_PROGRESS", "PROCESSING"}
TerminalStates == {"SUCCEEDED", "FAILED"}

\* C1: over its whole lifetime a tracker invokes onComplete and onError at
\* most once in total, however many poll cycles occur.
C1_AtMostOneTerminal ==
    \A t \in DOMAIN cbLog : TerminalCount(cbLog[t]) <= 1

\* C2: once stop() has been called on a tracker, that tracker invokes no
\* callback any more; the result of a query issued before stop() and settled
\* after it is discarded.
C2_PostStopSilence ==
    [][\A t \in DOMAIN cbLog : stopCalled[t] => cbLog'[t] = cbLog[t]]_vars

\* C3: at every instant at most one tracker is tracking or holds a scheduled
\* interval, and a step that starts a new tracker leaves every earlier
\* tracker stopped.
C3_SingleTracker ==
    /\ [](Cardinality({t \in DOMAIN trackers :
                          trackers[t].isTracking \/ timers[t] # {}}) <= 1)
    /\ [][Len(trackers') > Len(trackers) =>
            \A t \in DOMAIN trackers :
                ~trackers'[t].isTracking /\ trackers'[t].interval = 0 /\ timers'[t] = {}]_vars
\* C3 witness: a second tracker is tracking and the first, which had not
\* terminated, has been stopped by the controller.
C3_Witness ==
    /\ Len(trackers) = 2
    /\ trackers[2].isTracking /\ timers[2] # {}
    /\ stopCalled[1] /\ TerminalCount(cbLog[1]) = 0
    /\ ~trackers[1].isTracking /\ timers[1] = {}

\* C4: a tracker never has two status queries outstanding at the same time.
C4_SingleFlight ==
    \A t \in DOMAIN trackers : Cardinality(Outstanding(t)) <= 1

\* C5: when a second dispatch is issued before the first has resolved, no
\* status query is ever issued for the first dispatch's download id, and once
\* both have resolved with the second one successful the session and its
\* tracker are those of the second dispatch.
C5_SecondSupersedes ==
    \A p \in overlapped :
        /\ \A t \in DOMAIN trackers : trackers[t].downloadId # p[1]
        /\ (dlReqs = {} /\ \E t \in DOMAIN trackers : trackers[t].downloadId = p[2])
              => /\ state.currentDownloadId = p[2]
                 /\ trackers[state.progressTracker].downloadId = p[2]

\* C6: the session enters SUCCEEDED or FAILED only from FETCHING_INFO,
\* STARTING, IN_PROGRESS or PROCESSING, never directly from IDLE.
C6_TerminalOnlyFromActive ==
    [][(LifecycleState' \in TerminalStates /\ LifecycleState' # LifecycleState)
          => LifecycleState \in ActiveStates]_vars
\* C6, its second half alone: no step leads from IDLE to SUCCEEDED or FAILED.
C6_NeverFromIdle ==
    [][LifecycleState = "IDLE" => LifecycleState' \notin TerminalStates]_vars

\* C7: a session that is SUCCEEDED or FAILED leaves that state only by an
\* event of the user, never by a tracker callback or a late reply.
C7_TerminalLeftOnlyByUser ==
    [][(LifecycleState \in TerminalStates /\ LifecycleState' # LifecycleState)
          => UserEvent]_vars

\* C8: with the k-th status query answered 'starting', 'downloading',
\* 'completed' for k = 1, 2, 3, a tracker delivers two progress callbacks and
\* then one success callback, and issues no fourth status query.
C8_ScenarioA ==
    \A t \in DOMAIN trackers :
        /\ polls[t] <= 3
        /\ IsPrefix(cbLog[t], <<"onUpdate", "onUpdate", "onComplete">>)

\* C9: with the first status query answered 'downloading' and the second
\* failing in transport, a tracker delivers one progress callback and then
\* one failure callback, and issues no third status query.
C9_ScenarioB ==
    \A t \in DOMAIN trackers :
        /\ polls[t] <= 2
        /\ IsPrefix(cbLog[t], <<"onUpdate", "onError">>)

\* C10: the body startDownload sends has the given quality and no
\* audio_format field for a video, and the default audio format and no
\* quality field for an audio download.
C10_RequestBody ==
    \A req \in dlReqs :
        LET type == req.args[2]
            quality == req.args[3]
            body == req.body
        IN /\ body.url = req.args[1].core /\ body.type = type
           /\ type = VIDEO =>
                 /\ "quality" \in DOMAIN body /\ body.quality = quality
                 /\ "audio_format" \notin DOMAIN body
           /\ type = AUDIO =>
                 /\ "audio_format" \in DOMAIN body /\ body.audio_format = DEFAULT_AUDIO_FORMAT
                 /\ "quality" \notin DOMAIN body
\* C10 witness: an audio request chosen with quality 720 and a video request
\* with quality 720 are both on their way.
C10_Witness ==
    \E a, v \in dlReqs :
        /\ a.args[2] = AUDIO /\ a.args[3] = "720" /\ "quality" \notin DOMAIN a.body
        /\ v.args[2] = VIDEO /\ v.body.quality = "720"

\* The message the gateway is to fail with on a non-success response.
GatewayMessage(r) ==
    IF r.json /\ Truthy(Get(r.body, "error")) THEN r.body.error ELSE REQUEST_FAILED
\* C11: a gateway call makes one network round trip and no retry, and on a
\* non-success response it fails with the error text of the response when
\* there is one and with 'Request failed' in every other case, a response
\* without a usable error body included.
C11_GatewayFailure ==
    [][/\ \A req \in infoReqs : \A r \in InfoResponses(req.url) \cup OddResponses :
            (r.net /\ ~r.ok /\ InfoReply(req, r))
               => (~ui'.errorHidden /\ ui'.errorMessage = GatewayMessage(r))
       /\ \A req \in dlReqs : \A r \in DownloadResponses(req.n) \cup OddResponses :
            (r.net /\ ~r.ok /\ DownloadReply(req, r))
               => (~ui'.errorHidden /\ ui'.errorMessage = GatewayMessage(r))
       /\ \A q \in pollReqs : \A r \in ProgressResponses \cup OddResponses :
            (r.net /\ ~r.ok /\ ProgressReply(q, r))
               => (~ui'.errorHidden /\ ui'.errorMessage = GatewayMessage(r))
       /\ (infoReqs \ infoReqs' # {}) => (nInfo' = nInfo /\ infoReqs' \subseteq infoReqs)
       /\ (pollReqs \ pollReqs' # {}) => (polls' = polls /\ pollReqs' \subseteq pollReqs)
       /\ (cleanupReqs \ cleanupReqs' # {}) => (nCleanup' = nCleanup /\ cleanupReqs' \subseteq cleanupReqs)
       /\ (dlReqs \ dlReqs' # {}) => (nDl' = nDl /\ dlReqs' \subseteq dlReqs)]_vars

\* An input URL that is empty, malformed or longer than the maximum.
Rejected(url) == Length(url) = 0 \/ ~UrlParses(url) \/ Length(url) > MAX_URL_LENGTH
\* C12: a fetch-metadata request whose input URL is empty, malformed or
\* longer than the maximum URL length issues no gateway call and leaves the
\* stored source URL, metadata and download id as they were.
C12_InvalidRejected ==
    /\ [](\A req \in infoReqs : ~Rejected(req.url))
    /\ [](Length(state.currentUrl) > 0 => ~Rejected(state.currentUrl))
    /\ [][Rejected(Trim(ui.urlInput))
            => /\ nInfo' = nInfo /\ infoReqs' \subseteq infoReqs
               /\ FetchVideoInfo => UNCHANGED <<state, netVars>>]_vars
\* C12 witness: the input holds a URL longer than the maximum while the
\* session still has the source URL and metadata of an earlier fetch and no
\* call is on its way.
C12_Witness ==
    /\ UrlParses(ui.urlInput) /\ Length(Trim(ui.urlInput)) > MAX_URL_LENGTH
    /\ state.currentUrl.core = "https://b"
    /\ Get(state.videoInfo, "title") = "https://b"
    /\ infoReqs = {} /\ nInfo = 1

\* C13: once a status query of a tracker has produced a terminal outcome
\* ('completed', 'error' or a transport failure), that tracker issues no
\* status query any more, whatever start() and stop() calls follow.
C13_TerminationPermanent ==
    [][\A t \in DOMAIN trackers :
          TerminalCount(cbLog[t]) >= 1 => polls'[t] = polls[t]]_vars

\* C14: start() on an inactive tracker issues one status query at once and
\* schedules one repeating timer; start() on an active tracker issues no
\* query and schedules no timer; a tracker never holds more than one
\* scheduled interval.
C14_StartOnce ==
    /\ [](\A t \in DOMAIN trackers : Cardinality(timers[t]) <= 1)
    /\ [][\A t \in DOMAIN trackers :
            /\ (~trackers[t].isTracking /\ trackers'[t].isTracking)
                  => /\ polls'[t] = polls[t] + 1
                     /\ pollReqs' = pollReqs \cup {[tracker |-> t, seq |-> polls[t] + 1]}
                     /\ Cardinality(timers'[t]) = Cardinality(timers[t]) + 1
            /\ (trackers[t].isTracking /\ start(t))
                  => UNCHANGED <<trackers, timers, polls, pollReqs>>
            /\ trackers[t].isTracking => timers'[t] \subseteq timers[t]]_vars
\* C14 witness: a tracker that was started, stopped by its owner and started
\* again holds one interval and has issued one query per start().
C14_Witness ==
    \E t \in DOMAIN trackers :
        /\ trackers[t].isTracking /\ stopCalled[t] /\ cbLog[t] = <<>>
        /\ Cardinality(timers[t]) = 1 /\ polls[t] = 2
        /\ Cardinality(Outstanding(t)) = 2

\* C15: stop() leaves a tracker without interval and not tracking, whether
\* it was never started, is already stopped or has terminated, and after
\* stop() no timer of that tracker is left to issue a status query.
C15_StopIdempotent ==
    /\ [](\A t \in DOMAIN trackers : ~trackers[t].isTracking => timers[t] = {})
    /\ [][\A t \in DOMAIN trackers :
            stop(t) => /\ trackers'[t] = NewTracker(trackers[t].downloadId)
                       /\ timers'[t] = {}]_vars
\* C15 witness: a tracker that was polling has been stopped by its owner
\* with status queries still outstanding.
C15_Witness ==
    \E t \in DOMAIN trackers :
        /\ stopCalled[t] /\ TerminalCount(cbLog[t]) = 0
        /\ ~trackers[t].isTracking /\ trackers[t].interval = 0 /\ timers[t] = {}
        /\ polls[t] >= 2 /\ Outstanding(t) # {}

\* C16, first half: the source URL of the session is set only by the step in
\* which a metadata fetch for it succeeds.
C16_SourceUrlSet ==
    [][state'.currentUrl # state.currentUrl
          => \E req \in infoReqs \ infoReqs' :
                /\ req.url = state'.currentUrl
                /\ Get(state'.videoInfo, "title") = req.url.core]_vars
\* C16, second half: a dispatch is issued only from INFO_READY, for a URL
\* whose metadata the session holds.
C16_DispatchFromInfoReady ==
    [][nDl' > nDl
          => /\ LifecycleState = "INFO_READY"
             /\ Get(state.videoInfo, "title") = state.currentUrl.core]_vars
\* C16: the source URL is set only when a metadata fetch for it succeeds, and
\* every dispatch is issued from INFO_READY with a URL whose fetch succeeded.
C16_DispatchOnlyFetched == C16_SourceUrlSet /\ C16_DispatchFromInfoReady

\* C17: a new-download request in SUCCEEDED or FAILED leaves the session
\* IDLE with no download id, and leaves no tracker tracking or holding an
\* interval.
C17_NewDownloadDiscards ==
    [][(LifecycleState \in TerminalStates /\ NewDownloadClick)
          => /\ LifecycleState' = "IDLE"
             /\ state'.currentDownloadId = NoId
             /\ \A t \in DOMAIN trackers' :
                   ~trackers'[t].isTracking /\ timers'[t] = {}]_vars

\* C18: once a fetch-metadata or start-download request has been accepted
\* the previous error is no longer shown, and it is not shown after a
\* metadata fetch has succeeded.
C18_ErrorCleared ==
    [][/\ (nInfo' > nInfo \/ nDl' > nDl) => ui'.errorHidden
       /\ \A req \in infoReqs : \A r \in InfoResponses(req.url) :
            (r.net /\ r.ok /\ InfoReply(req, r)) => ui'.errorHidden]_vars

\* C19: a report is never delivered to onUpdate after the report of a status
\* query that the same tracker issued later has been delivered.
C19_UpdatesInIssueOrder ==
    [][\A q \in pollReqs \ pollReqs' :
          cbLog'[q.tracker] = Append(cbLog[q.tracker], "onUpdate")
             => \A k \in (q.seq + 1)..polls[q.tracker] :
                   [tracker |-> q.tracker, seq |-> k] \in pollReqs]_vars

\* C20: a retry request in FAILED leads to INFO_READY, with the metadata
\* shown again and the error hidden, when metadata is held, and to IDLE,
\* with the input and the sections reset, when none is held; it issues no
\* gateway call and creates no tracker.
C20_Retry ==
    [][(LifecycleState = "FAILED" /\ RetryClick)
          => /\ IF state.videoInfo # EmptyObj
                THEN /\ LifecycleState' = "INFO_READY"
                     /\ ~ui'.videoInfoHidden /\ ui'.videoTitle = state.videoInfo.title
                     /\ ui'.errorHidden
                ELSE /\ LifecycleState' = "IDLE"
                     /\ ui'.urlInput = EmptyText /\ ui'.videoInfoHidden
                     /\ ui'.errorHidden /\ ui'.progressHidden /\ ui'.successHidden
             /\ UNCHANGED <<netVars, trackers, timers, polls>>]_vars
\* C20 witness: after the fetch for https://b failed, a retry has brought
\* back the metadata of https://a and hidden the error.
C20_Witness ==
    /\ LifecycleState = "INFO_READY"
    /\ ui.errorHidden /\ ui.errorMessage # ""
    /\ ui.videoTitle = "https://a" /\ state.currentUrl.core = "https://b"
    /\ nDl = 0

\* C21: between handlers a tracker has an interval handle exactly when it is
\* tracking, after any sequence of start(), stop(), timer ticks and poll
\* replies.
C21_HandleIffTracking ==
    \A t \in DOMAIN trackers : (trackers[t].interval # 0) <=> trackers[t].isTracking
\* C21 witness: a tracker that terminated on a poll reply has been started
\* again and is tracking with an interval handle.
C21_Witness ==
    \E t \in DOMAIN trackers :
        /\ TerminalCount(cbLog[t]) >= 1 /\ stopCalled[t]
        /\ trackers[t].isTracking /\ trackers[t].interval # 0

\* C22: a poll reply with its callback, a timer tick and the tracker's own
\* start and stop leave App.state as it was: the URL, the download id, the
\* type and quality, the metadata and the tracker reference.
C22_TrackerLeavesState ==
    [][/\ (pollReqs \ pollReqs' # {}) => state' = state
       /\ (Len(trackers') = Len(trackers) /\ polls' # polls) => state' = state
       /\ (Len(trackers') = Len(trackers) /\ trackers' # trackers) => state' = state]_vars
\* C22 witness: a tracker has delivered onComplete, the success section is
\* shown, and the session still has its download id and tracker reference.
C22_Witness ==
    /\ Len(trackers) = 1 /\ cbLog[1] = <<"onUpdate", "onComplete">>
    /\ ~ui.successHidden
    /\ state.currentDownloadId = trackers[1].downloadId /\ state.progressTracker = 1

\* C23: when a status query of a tracker reports 'completed' and the success
\* section is shown, the file link is built from the download id of that
\* tracker.
C23_LinkOfCompletedTracker ==
    [][\A q \in pollReqs \ pollReqs' :
          cbLog'[q.tracker] = Append(cbLog[q.tracker], "onComplete")
             => /\ ~ui'.successHidden
                /\ ui'.fileHref = trackers[q.tracker].downloadId]_vars

\* C24: the loading overlay is visible exactly while a metadata fetch, a
\* dispatch or a cleanup call is in flight; when two of them overlap, the
\* completion of one does not hide it while the other is outstanding.
C24_LoadingWhileInFlight ==
    ui.loadingHidden <=> (infoReqs = {} /\ dlReqs = {} /\ cleanupReqs = {})

\* C25: when every status query settles, the interval keeps firing and the
\* backend comes to report 'completed' or 'error', a started tracker that
\* the controller does not stop eventually delivers a terminal callback and
\* eventually has no scheduled interval.
C25_TrackerTerminates ==
    (1 \in DOMAIN trackers /\ trackers[1].isTracking)
       ~> (1 \in DOMAIN trackers /\ timers[1] = {} /\ TerminalCount(cbLog[1]) >= 1)
\* C25 witness: a tracker has delivered two progress reports and then the
\* terminal one, and no interval or status query of it is left.
C25_Witness ==
    \E t \in DOMAIN trackers :
        /\ cbLog[t] = <<"onUpdate", "onUpdate", "onComplete">>
        /\ stopCalled[t]
        /\ timers[t] = {} /\ Outstanding(t) = {}
====
